---- MODULE Spec2Model ----
(***************************************************************************)
(* Configuration resolution of supabase_mcp/settings.py:                   *)
(*   find_config_file  - locates the dotenv file (cwd first, then the      *)
(*                       deprecated per-user path);                        *)
(*   Settings          - the pydantic-settings schema with its three field *)
(*                       validators;                                       *)
(*   Settings.with_config - builds the instance from environment, dotenv   *)
(*                       file and defaults, then logs which source is used.*)
(* One run of the module-level statement                                   *)
(*   settings = Settings.with_config(find_config_file())                   *)
(* is modelled step by step; the inputs (process environment, filesystem,  *)
(* dotenv contents, platform, working directory) are drawn in Init.        *)
(***************************************************************************)
EXTENDS Integers, Sequences, FiniteSets, TLC

VARIABLES
    os_name,      \* os.name: "posix" or "nt"
    cwd,          \* Path.cwd()
    fs,           \* the filesystem: existing path |-> "file" or "dir"
    environ,      \* os.environ: the set variables |-> their values
    dotenv,       \* key |-> value lines of the dotenv file that is read
    pc,           \* position in the module-level statement
    config_file,  \* the value find_config_file returned
    raw,          \* per field, the value selected from the sources
    data,         \* pydantic's info.data: the fields validated so far
    errors,       \* the fields whose validation raised
    instance,     \* the Settings instance, None before construction
    log           \* the messages sent to the logger, in order

vars == <<os_name, cwd, fs, environ, dotenv, pc, config_file, raw, data, errors,
          instance, log>>

-----------------------------------------------------------------------------
(* Python values.  Strings are TLA+ strings; None is a string no input holds. *)

None == "<None>"

\* bool(v) of an optional string: None and "" are falsy
Truthy(v) == v # None /\ v # ""

\* str.startswith
startswith(s, prefix) ==
    Len(s) >= Len(prefix) /\ SubSeq(s, 1, Len(prefix)) = prefix

\* an empty dict
EmptyMap == [k \in {} |-> ""]

\* dict.get(key, default)
Get(d, key, default) == IF key \in DOMAIN d THEN d[key] ELSE default

\* pathlib: Path(a) / b for a relative b; Path("") / b is the relative path b
Join(a, b) == IF a = "" THEN b ELSE a \o "/" \o b

\* a relative path is resolved against the working directory by the OS
IsAbsolute(p) == startswith(p, "/") \/ startswith(p, "C:")
Resolved(p) == IF IsAbsolute(p) THEN p ELSE Join(cwd, p)

\* Path.exists() and Path.is_file()
Exists(p) == Resolved(p) \in DOMAIN fs
IsFile(p) == Exists(p) /\ fs[Resolved(p)] = "file"

\* Path.home()
Home == "/home/u"

-----------------------------------------------------------------------------
(* The Settings schema (Field declarations).                               *)

Fields ==
    {"supabase_project_ref", "supabase_db_password", "supabase_region",
     "supabase_access_token", "supabase_service_role_key", "supabase_api_url",
     "query_api_key", "query_api_url"}

\* Field(default=...)
Defaults ==
    [supabase_project_ref      |-> "127.0.0.1:54322",
     supabase_db_password      |-> None,
     supabase_region           |-> "us-east-1",
     supabase_access_token     |-> None,
     supabase_service_role_key |-> None,
     supabase_api_url          |-> "https://api.supabase.com",
     query_api_key             |-> "test-key",
     query_api_url             |-> "https://api.thequery.dev/v1"]

\* Field(alias=...); supabase_api_url declares none
Alias ==
    [supabase_project_ref      |-> "SUPABASE_PROJECT_REF",
     supabase_db_password      |-> "SUPABASE_DB_PASSWORD",
     supabase_region           |-> "SUPABASE_REGION",
     supabase_access_token     |-> "SUPABASE_ACCESS_TOKEN",
     supabase_service_role_key |-> "SUPABASE_SERVICE_ROLE_KEY",
     supabase_api_url          |-> None,
     query_api_key             |-> "QUERY_API_KEY",
     query_api_url             |-> "QUERY_API_URL"]

\* str.upper() of the field names
Upper ==
    [supabase_project_ref      |-> "SUPABASE_PROJECT_REF",
     supabase_db_password      |-> "SUPABASE_DB_PASSWORD",
     supabase_region           |-> "SUPABASE_REGION",
     supabase_access_token     |-> "SUPABASE_ACCESS_TOKEN",
     supabase_service_role_key |-> "SUPABASE_SERVICE_ROLE_KEY",
     supabase_api_url          |-> "SUPABASE_API_URL",
     query_api_key             |-> "QUERY_API_KEY",
     query_api_url             |-> "QUERY_API_URL"]

\* SUPPORTED_REGIONS, the documented region codes
SUPPORTED_REGIONS ==
    {"us-west-1", "us-east-1", "us-east-2", "ca-central-1",
     "eu-west-1", "eu-west-2", "eu-west-3", "eu-central-1",
     "eu-central-2", "eu-north-1", "ap-south-1", "ap-southeast-1",
     "ap-northeast-1", "ap-northeast-2", "ap-southeast-2", "sa-east-1"}

\* The name a field is looked up under in the environment and in the dotenv
\* file.  BaseSettings (case_sensitive off, no env_prefix) uses the alias when
\* one is declared, else the field's own name, and compares names without
\* regard to case; names are written here in upper case, as they are exported.
\* variant: only a declared alias names an environment variable
EnvKey_alias_only(f) == Alias[f]

EnvKey(f) == IF Alias[f] # None THEN Alias[f] ELSE Upper[f]

\* The messages the module sends to the logger
Deprecated(path) == [level |-> "error", msg |-> "DEPRECATED", arg |-> path]
PasswordRequired ==
    [level |-> "error",
     msg   |-> "SUPABASE_DB_PASSWORD is required when connecting to a remote instance",
     arg   |-> None]
EnvOverFile(path) ==
    [level |-> "info", msg |-> "Using environment variables over config file", arg |-> path]
UsingEnv ==
    [level |-> "info", msg |-> "Using environment variables for configuration", arg |-> None]
UsingFile(path) ==
    [level |-> "info", msg |-> "Using settings from config file", arg |-> path]
UsingDefaults ==
    [level |-> "info", msg |-> "Using default settings (local development)", arg |-> None]

-----------------------------------------------------------------------------
(* find_config_file                                                        *)

\* global_config of find_config_file
GlobalConfig ==
    IF os_name = "nt"
    THEN Join(Join(Get(environ, "APPDATA", ""), "supabase-mcp"), ".env")
    ELSE Join(Join(Join(Home, ".config"), "supabase-mcp"), ".env")

\* variant: the working-directory candidate must be a regular file
find_config_file_is_file(env_file) ==
    LET cwd_config == Join(cwd, env_file) IN
    IF IsFile(cwd_config)
    THEN [ret |-> cwd_config, logged |-> <<>>]
    ELSE IF Exists(GlobalConfig)
         THEN [ret |-> GlobalConfig, logged |-> <<Deprecated(GlobalConfig)>>]
         ELSE [ret |-> None, logged |-> <<>>]

\* find_config_file(env_file): the value returned and the messages logged
find_config_file(env_file) ==
    LET cwd_config == Join(cwd, env_file) IN
    IF Exists(cwd_config)
    THEN [ret |-> cwd_config, logged |-> <<>>]
    ELSE IF Exists(GlobalConfig)
         THEN [ret |-> GlobalConfig, logged |-> <<Deprecated(GlobalConfig)>>]
         ELSE [ret |-> None, logged |-> <<>>]

-----------------------------------------------------------------------------
(* The field validators.  Each yields ok = FALSE where the code raises     *)
(* ValueError, else the validated value, and the messages it logged.       *)

\* variant: the documented allow-list is enforced
validate_region_allow_list(v) ==
    IF v \in SUPPORTED_REGIONS
    THEN [ok |-> TRUE, value |-> v, logged |-> <<>>]
    ELSE [ok |-> FALSE, value |-> None, logged |-> <<>>]

validate_region(v) == [ok |-> TRUE, value |-> v, logged |-> <<>>]

\* variant: the emptiness check is missing
validate_project_ref_any(v) == [ok |-> TRUE, value |-> v, logged |-> <<>>]

validate_project_ref(v) ==
    IF ~Truthy(v)
    THEN [ok |-> FALSE, value |-> None, logged |-> <<>>]
    ELSE [ok |-> TRUE, value |-> v, logged |-> <<>>]

\* variant: the remote branch does not require a password
validate_db_password_not_required(v, info_data) ==
    LET project_ref == Get(info_data, "supabase_project_ref", "") IN
    IF startswith(project_ref, "127.0.0.1")
    THEN [ok |-> TRUE, value |-> IF Truthy(v) THEN v ELSE "postgres", logged |-> <<>>]
    ELSE [ok |-> TRUE, value |-> v, logged |-> <<>>]

\* variant: the loopback branch returns v without the "postgres" default
validate_db_password_no_default(v, info_data) ==
    LET project_ref == Get(info_data, "supabase_project_ref", "") IN
    IF startswith(project_ref, "127.0.0.1")
    THEN [ok |-> TRUE, value |-> v, logged |-> <<>>]
    ELSE IF ~Truthy(v)
         THEN [ok |-> FALSE, value |-> None, logged |-> <<PasswordRequired>>]
         ELSE [ok |-> TRUE, value |-> v, logged |-> <<>>]

\* variant: the loopback branch always returns "postgres"
validate_db_password_always_default(v, info_data) ==
    LET project_ref == Get(info_data, "supabase_project_ref", "") IN
    IF startswith(project_ref, "127.0.0.1")
    THEN [ok |-> TRUE, value |-> "postgres", logged |-> <<>>]
    ELSE IF ~Truthy(v)
         THEN [ok |-> FALSE, value |-> None, logged |-> <<PasswordRequired>>]
         ELSE [ok |-> TRUE, value |-> v, logged |-> <<>>]

\* variant: the remote branch raises without logging
validate_db_password_silent(v, info_data) ==
    LET project_ref == Get(info_data, "supabase_project_ref", "") IN
    IF startswith(project_ref, "127.0.0.1")
    THEN [ok |-> TRUE, value |-> IF Truthy(v) THEN v ELSE "postgres", logged |-> <<>>]
    ELSE IF ~Truthy(v)
         THEN [ok |-> FALSE, value |-> None, logged |-> <<>>]
         ELSE [ok |-> TRUE, value |-> v, logged |-> <<>>]

validate_db_password(v, info_data) ==
    LET project_ref == Get(info_data, "supabase_project_ref", "") IN
    IF startswith(project_ref, "127.0.0.1")
    THEN [ok |-> TRUE, value |-> IF Truthy(v) THEN v ELSE "postgres", logged |-> <<>>]
    ELSE IF ~Truthy(v)
         THEN [ok |-> FALSE, value |-> None, logged |-> <<PasswordRequired>>]
         ELSE [ok |-> TRUE, value |-> v, logged |-> <<>>]

\* The fields whose validators raise, given the selected values: the
\* validators run in declaration order and validate_db_password sees the
\* project reference only when it validated
ValidationErrors(project_ref, db_password, region) ==
    LET r1 == validate_project_ref(project_ref)
        d1 == IF r1.ok THEN "supabase_project_ref" :> r1.value ELSE EmptyMap
        r2 == validate_db_password(db_password, d1)
        r3 == validate_region(region)
    IN  {f \in {"supabase_project_ref"} : ~r1.ok}
        \cup {f \in {"supabase_db_password"} : ~r2.ok}
        \cup {f \in {"supabase_region"} : ~r3.ok}

-----------------------------------------------------------------------------
(* Source selection of SettingsWithConfig(): environment, then dotenv file, *)
(* then the declared default.                                               *)

\* What the dotenv source reads: the file named by env_file when it is a
\* regular file, nothing otherwise (no path, a missing path, a directory)
FileValues ==
    IF config_file # None /\ IsFile(config_file) THEN dotenv ELSE EmptyMap

\* variant: the dotenv file takes precedence over the environment
Selected_file_first(f) ==
    IF EnvKey(f) \in DOMAIN FileValues THEN FileValues[EnvKey(f)]
    ELSE IF EnvKey(f) \in DOMAIN environ THEN environ[EnvKey(f)]
    ELSE Defaults[f]

\* The value the sources give a field
Selected(f) ==
    IF EnvKey(f) \in DOMAIN environ THEN environ[EnvKey(f)]
    ELSE IF EnvKey(f) \in DOMAIN FileValues THEN FileValues[EnvKey(f)]
    ELSE Defaults[f]

\* variant: both variables must be set
env_vars_present_all ==
    \A var \in {"SUPABASE_PROJECT_REF", "SUPABASE_DB_PASSWORD"} : var \in DOMAIN environ

\* env_vars_present of with_config
env_vars_present ==
    \E var \in {"SUPABASE_PROJECT_REF", "SUPABASE_DB_PASSWORD"} : var \in DOMAIN environ

\* The informational line with_config logs
SourceLine ==
    IF env_vars_present /\ config_file # None THEN EnvOverFile(config_file)
    ELSE IF env_vars_present THEN UsingEnv
    ELSE IF config_file # None THEN UsingFile(config_file)
    ELSE UsingDefaults

\* Fields validated by type only (no field_validator)
PlainFields ==
    Fields \ {"supabase_project_ref", "supabase_db_password", "supabase_region"}

-----------------------------------------------------------------------------
(* The steps of  settings = Settings.with_config(find_config_file())       *)

\* line 125, the argument: find_config_file()
FindConfigFile ==
    /\ pc = "start"
    /\ LET r == find_config_file(".env") IN
        /\ config_file' = r.ret
        /\ log' = log \o r.logged
    /\ pc' = "load"
    /\ UNCHANGED <<os_name, cwd, fs, environ, dotenv, raw, data, errors, instance>>

\* SettingsWithConfig(): the settings sources are read and merged
LoadSources ==
    /\ pc = "load"
    /\ raw' = [f \in Fields |-> Selected(f)]
    /\ data' = EmptyMap
    /\ errors' = {}
    /\ pc' = "project_ref"
    /\ UNCHANGED <<os_name, cwd, fs, environ, dotenv, config_file, instance, log>>

\* one field is validated: a raised ValueError is collected, else the value
\* joins info.data
Validate(field, r, next) ==
    /\ IF r.ok
       THEN /\ data' = (field :> r.value) @@ data
            /\ errors' = errors
       ELSE /\ errors' = errors \cup {field}
            /\ data' = data
    /\ log' = log \o r.logged
    /\ pc' = next
    /\ UNCHANGED <<os_name, cwd, fs, environ, dotenv, config_file, raw, instance>>

ValidateProjectRef ==
    /\ pc = "project_ref"
    /\ Validate("supabase_project_ref",
                validate_project_ref(raw["supabase_project_ref"]), "db_password")

ValidateDbPassword ==
    /\ pc = "db_password"
    /\ Validate("supabase_db_password",
                validate_db_password(raw["supabase_db_password"], data), "region")

ValidateRegion ==
    /\ pc = "region"
    /\ Validate("supabase_region", validate_region(raw["supabase_region"]), "rest")

\* the remaining fields are strings and pass; with every field valid the
\* instance is built
Construct ==
    /\ pc = "rest"
    /\ errors = {}
    /\ instance' = [f \in Fields |-> IF f \in PlainFields THEN raw[f] ELSE data[f]]
    /\ pc' = "constructed"
    /\ UNCHANGED <<os_name, cwd, fs, environ, dotenv, config_file, raw, data, errors, log>>

\* with a field invalid, ValidationError leaves SettingsWithConfig() and
\* with_config
RaiseValidationError ==
    /\ pc = "rest"
    /\ errors # {}
    /\ pc' = "raised"
    /\ UNCHANGED <<os_name, cwd, fs, environ, dotenv, config_file, raw, data, errors,
                   instance, log>>

\* lines 112-122: the source line is logged and the instance returned
LogSourceAndReturn ==
    /\ pc = "constructed"
    /\ log' = Append(log, SourceLine)
    /\ pc' = "returned"
    /\ UNCHANGED <<os_name, cwd, fs, environ, dotenv, config_file, raw, data, errors,
                   instance>>

Next ==
    \/ FindConfigFile
    \/ LoadSources
    \/ ValidateProjectRef
    \/ ValidateDbPassword
    \/ ValidateRegion
    \/ Construct
    \/ RaiseValidationError
    \/ LogSourceAndReturn

-----------------------------------------------------------------------------
(* The inputs of a run.                                                    *)

\* at most this many environment variables are set
MaxEnvSet == 2
\* at most this many keys appear in the dotenv file
MaxFileKeys == 2
\* at most this many filesystem entries exist
MaxEntries == 2

\* the values an environment variable may hold
EnvValues ==
    [SUPABASE_PROJECT_REF      |-> {"", "127.0.0.1:6543", "127.0.0.2", "myproject.supabase.co"},
     SUPABASE_DB_PASSWORD      |-> {"", "s3cr3t"},
     SUPABASE_REGION           |-> {"local", "totally-unknown-region"},
     SUPABASE_ACCESS_TOKEN     |-> {"env-token"},
     SUPABASE_SERVICE_ROLE_KEY |-> {"env-role-key"},
     SUPABASE_API_URL          |-> {"https://env.example/api"},
     QUERY_API_KEY             |-> {"env-query-key"},
     QUERY_API_URL             |-> {"https://env.example/query"},
     APPDATA                   |-> {"C:/AppData"}]

\* the values a key of the dotenv file may hold
FileValueSets ==
    [SUPABASE_PROJECT_REF      |-> {"", "127.0.0.1", "db.example.com"},
     SUPABASE_DB_PASSWORD      |-> {"", "file-pw"},
     SUPABASE_REGION           |-> {"eu-west-1"},
     SUPABASE_ACCESS_TOKEN     |-> {"file-token"},
     SUPABASE_SERVICE_ROLE_KEY |-> {"file-role-key"},
     SUPABASE_API_URL          |-> {"https://file.example/api"},
     QUERY_API_KEY             |-> {"file-query-key"},
     QUERY_API_URL             |-> {"https://file.example/query"}]

\* the dicts with at most max keys among names, each value among values[key]
Maps(names, values, max) ==
    UNION { { m \in [S -> UNION {values[n] : n \in S}] : \A n \in S : m[n] \in values[n] }
            : S \in {T \in SUBSET names : Cardinality(T) <= max} }

\* the paths find_config_file can probe
Paths ==
    {"/proj/.env", "/proj/supabase-mcp/.env",
     "/home/u/.config/supabase-mcp/.env", "C:/AppData/supabase-mcp/.env"}

Kinds == [p \in Paths |-> {"file", "dir"}]

\* the part of a run's state that is not an input
Fresh ==
    /\ pc = "start"
    /\ config_file = None
    /\ raw = EmptyMap
    /\ data = EmptyMap
    /\ errors = {}
    /\ instance = None
    /\ log = <<>>

\* Resolution: any environment and dotenv contents, on a posix host whose
\* dotenv file, if any, is a regular file in one of the two probed places
Init ==
    /\ os_name = "posix"
    /\ cwd = "/proj"
    /\ fs \in Maps({"/proj/.env", "/home/u/.config/supabase-mcp/.env"},
                   [p \in Paths |-> {"file"}], 1)
    /\ environ \in Maps(DOMAIN EnvValues, EnvValues, MaxEnvSet)
    /\ dotenv \in IF fs = EmptyMap THEN {EmptyMap}
                  ELSE Maps(DOMAIN FileValueSets, FileValueSets, MaxFileKeys)
    /\ Fresh

Spec == Init /\ [][Next]_vars

\* Location: any platform, working directory and filesystem, with the
\* environment variables find_config_file and the validators read
InitLocate ==
    /\ os_name \in {"posix", "nt"}
    /\ cwd \in {"/proj", "/home/u/.config/supabase-mcp"}
    /\ fs \in Maps(Paths, Kinds, MaxEntries)
    /\ environ \in Maps({"APPDATA", "SUPABASE_PROJECT_REF"}, EnvValues, MaxEnvSet)
    /\ dotenv = EmptyMap
    /\ Fresh

SpecLocate == InitLocate /\ [][Next]_vars

-----------------------------------------------------------------------------
(* Vocabulary of the properties.                                           *)

\* with_config has returned an instance / has raised ValidationError
Succeeded == pc \in {"constructed", "returned"}
Validated == pc \in {"rest", "constructed", "returned", "raised"}

\* the dotenv file with_config was given holds this key
InFile(key) == config_file # None /\ IsFile(config_file) /\ key \in DOMAIN dotenv

\* environment first, then file, then default, written out per key
FromSources(env, key, default) ==
    IF key \in DOMAIN env THEN env[key]
    ELSE IF InFile(key) THEN dotenv[key]
    ELSE default

ChosenRef == FromSources(environ, "SUPABASE_PROJECT_REF", "127.0.0.1:54322")
ChosenPassword == FromSources(environ, "SUPABASE_DB_PASSWORD", None)
ChosenRegion == FromSources(environ, "SUPABASE_REGION", "us-east-1")

PasswordSupplied == "SUPABASE_DB_PASSWORD" \in DOMAIN environ \/ InFile("SUPABASE_DB_PASSWORD")

Loopback(ref) == startswith(ref, "127.0.0.1")

\* the messages of one level, and the error messages with_config caused
OfLevel(level) == SelectSeq(log, LAMBDA e : e.level = level)
ResolutionErrors == SelectSeq(log, LAMBDA e : e.level = "error" /\ e.msg # "DEPRECATED")

-----------------------------------------------------------------------------
\* C1: with a non-loopback project reference and no database password in the
\* environment or the config file, with_config fails with a validation error;
\* no Settings is ever returned whose project reference is non-loopback and
\* whose password is absent.
C1_RemoteRequiresPassword ==
    /\ (Validated /\ ~Loopback(ChosenRef) /\ ~PasswordSupplied)
          => ("supabase_db_password" \in errors /\ ~Succeeded)
    /\ Succeeded
          => ~(~Loopback(instance["supabase_project_ref"])
               /\ instance["supabase_db_password"] = None)

C1_Witness ==
    /\ pc = "raised"
    /\ ChosenRef = "myproject.supabase.co"
    /\ ~PasswordSupplied
    /\ errors = {"supabase_db_password"}

\* C2: with a project reference that starts with 127.0.0.1 (the default
\* included) and no database password from any source, with_config succeeds
\* and the resolved password is "postgres".
C2_LoopbackDefaultsPassword ==
    (Validated /\ Loopback(ChosenRef) /\ ~PasswordSupplied)
       => /\ errors = {}
          /\ pc # "raised"
          /\ data["supabase_db_password"] = "postgres"
          /\ Succeeded => instance["supabase_db_password"] = "postgres"

C2_Witness ==
    /\ pc = "returned"
    /\ environ = EmptyMap
    /\ config_file = None
    /\ instance["supabase_project_ref"] = "127.0.0.1:54322"
    /\ instance["supabase_region"] = "us-east-1"
    /\ instance["supabase_db_password"] = "postgres"

\* C5: with an empty project reference after source selection, with_config
\* fails whatever the other fields hold, password supplied or not; no Settings
\* with an empty project reference is ever returned.
C5_EmptyRefRejected ==
    /\ (Validated /\ ChosenRef = "")
          => ("supabase_project_ref" \in errors /\ ~Succeeded)
    /\ Succeeded => instance["supabase_project_ref"] # ""

C5_Witness ==
    /\ pc = "raised"
    /\ "SUPABASE_PROJECT_REF" \in DOMAIN environ
    /\ environ["SUPABASE_PROJECT_REF"] = ""
    /\ Truthy(ChosenPassword)
    /\ errors = {"supabase_project_ref"}

\* C7: the region never makes resolution fail: for every region string,
\* "local" and strings outside SUPPORTED_REGIONS included, with_config succeeds
\* exactly when it would with the default region, and the resolved region is
\* the supplied string unchanged.
C7_RegionPermissive ==
    /\ Validated =>
          /\ "supabase_region" \notin errors
          /\ errors = ValidationErrors(ChosenRef, ChosenPassword, Defaults["supabase_region"])
          /\ data["supabase_region"] = ChosenRegion
    /\ Succeeded => instance["supabase_region"] = ChosenRegion

C7_Witness ==
    /\ pc = "returned"
    /\ "SUPABASE_REGION" \in DOMAIN environ
    /\ environ["SUPABASE_REGION"] \notin SUPPORTED_REGIONS
    /\ instance["supabase_region"] = "totally-unknown-region"

\* C10: a resolution that fails for a missing password on a non-loopback
\* target first sends exactly one error message to the logger and then raises
\* the validation error to the caller; the message is logged only on a
\* resolution that fails, never on one that returns a Settings.
C10_LoggedThenRaised ==
    /\ [](/\ ("supabase_db_password" \in errors)
                => (ResolutionErrors = <<PasswordRequired>> /\ ~Succeeded)
          /\ (ResolutionErrors # <<>>)
                => /\ "supabase_db_password" \in errors
                   /\ pc \in {"region", "rest", "raised"}
          /\ (pc = "rest" /\ "supabase_db_password" \in errors) => ENABLED RaiseValidationError)
    /\ [][(pc' = "raised" /\ "supabase_db_password" \in errors')
             => (ResolutionErrors = <<PasswordRequired>> /\ log' = log)]_vars

C10_Witness ==
    /\ pc = "raised"
    /\ errors = {"supabase_db_password"}
    /\ ~Loopback(ChosenRef)
    /\ ResolutionErrors = <<PasswordRequired>>

-----------------------------------------------------------------------------
\* the environment variables named after the fields: the seven aliases and
\* the name of the alias-less supabase_api_url
AliasNames ==
    {"SUPABASE_PROJECT_REF", "SUPABASE_DB_PASSWORD", "SUPABASE_REGION",
     "SUPABASE_ACCESS_TOKEN", "SUPABASE_SERVICE_ROLE_KEY", "QUERY_API_KEY",
     "QUERY_API_URL"}
FieldVariables == AliasNames \cup {"SUPABASE_API_URL"}

\* a dict without the keys outside names
Restrict(d, names) == [k \in DOMAIN d \cap names |-> d[k]]

\* C3 as stated: every field of a returned Settings, the database password
\* included, holds the value of its environment variable if set, else of its
\* key in the config file, else its declared default.
C3_AsStated ==
    Succeeded =>
        \A f \in Fields : instance[f] = FromSources(environ, Upper[f], Defaults[f])

\* C3, amended: the precedence environment > config file > default selects
\* every field's value independently; every field but the database password
\* resolves to the selected value, and the password resolves to the selected
\* value when that is a non-empty string and to "postgres" otherwise.
C3_Precedence ==
    /\ pc \notin {"start", "load"} =>
          \A f \in Fields : raw[f] = FromSources(environ, Upper[f], Defaults[f])
    /\ Succeeded =>
          /\ \A f \in Fields \ {"supabase_db_password"} :
                instance[f] = FromSources(environ, Upper[f], Defaults[f])
          /\ instance["supabase_db_password"] =
                IF Truthy(ChosenPassword) THEN ChosenPassword ELSE "postgres"

\* some fields come from the environment while another comes from the file
C3_Witness ==
    /\ pc = "returned"
    /\ "SUPABASE_REGION" \in DOMAIN environ
    /\ InFile("SUPABASE_REGION")
    /\ InFile("QUERY_API_KEY")
    /\ "QUERY_API_KEY" \notin DOMAIN environ
    /\ instance["supabase_region"] = environ["SUPABASE_REGION"]
    /\ instance["supabase_region"] # dotenv["SUPABASE_REGION"]
    /\ instance["query_api_key"] = "file-query-key"
    /\ instance["query_api_url"] = "https://api.thequery.dev/v1"

\* C4 as stated: whenever with_config succeeds with a database password
\* supplied, the empty string included, the resolved password is the supplied
\* value unchanged.
C4_AsStated ==
    (Succeeded /\ PasswordSupplied) => instance["supabase_db_password"] = ChosenPassword

\* C4, amended: a supplied non-empty password is resolved unchanged for every
\* project reference; "postgres" is substituted only when the password is
\* absent or the empty string, which with_config treats alike.
C4_PasswordPassthrough ==
    Succeeded =>
        /\ Truthy(ChosenPassword) => instance["supabase_db_password"] = ChosenPassword
        /\ instance["supabase_db_password"] # ChosenPassword
              => /\ ChosenPassword \in {None, ""}
                 /\ instance["supabase_db_password"] = "postgres"
                 /\ Loopback(ChosenRef)

C4_Witness ==
    /\ pc = "returned"
    /\ "SUPABASE_DB_PASSWORD" \in DOMAIN environ
    /\ environ["SUPABASE_DB_PASSWORD"] = "s3cr3t"
    /\ instance["supabase_project_ref"] = "myproject.supabase.co"
    /\ instance["supabase_db_password"] = "s3cr3t"

\* C8 as stated: the resolved supabase_api_url is what an empty environment
\* gives (config file or default), and only the seven alias names affect any
\* resolved field.
C8_AsStated ==
    Succeeded =>
        /\ instance["supabase_api_url"]
              = FromSources(EmptyMap, "SUPABASE_API_URL", "https://api.supabase.com")
        /\ \A f \in Fields \ {"supabase_db_password"} :
              instance[f] = FromSources(Restrict(environ, AliasNames), Upper[f], Defaults[f])

\* C8, amended: supabase_api_url is resolved from the environment variable
\* SUPABASE_API_URL when set, else from the config file, else the default; the
\* only environment variables that affect a resolved field are the seven
\* alias names and SUPABASE_API_URL.
C8_ApiUrlSources ==
    /\ Succeeded =>
          /\ instance["supabase_api_url"]
                = IF "SUPABASE_API_URL" \in DOMAIN environ THEN environ["SUPABASE_API_URL"]
                  ELSE FromSources(EmptyMap, "SUPABASE_API_URL", "https://api.supabase.com")
          /\ \A f \in Fields \ {"supabase_db_password"} :
                instance[f] = FromSources(Restrict(environ, FieldVariables), Upper[f], Defaults[f])
          /\ instance["supabase_db_password"] =
                LET v == FromSources(Restrict(environ, FieldVariables), "SUPABASE_DB_PASSWORD", None)
                IN  IF Truthy(v) THEN v ELSE "postgres"
    /\ Validated =>
          errors = ValidationErrors(
              FromSources(Restrict(environ, FieldVariables), "SUPABASE_PROJECT_REF", "127.0.0.1:54322"),
              FromSources(Restrict(environ, FieldVariables), "SUPABASE_DB_PASSWORD", None),
              FromSources(Restrict(environ, FieldVariables), "SUPABASE_REGION", "us-east-1"))

C8_Witness ==
    /\ pc = "returned"
    /\ "SUPABASE_API_URL" \in DOMAIN environ
    /\ "APPDATA" \in DOMAIN environ
    /\ instance["supabase_api_url"] = "https://env.example/api"

\* the informational line for the two facts
LineFor(env_present, file_given) ==
    IF env_present /\ file_given THEN EnvOverFile(config_file)
    ELSE IF env_present THEN UsingEnv
    ELSE IF file_given THEN UsingFile(config_file)
    ELSE UsingDefaults

\* C9 as stated: a successful with_config logs exactly the informational line
\* chosen by whether any recognised environment variable is set and whether a
\* config file path was supplied.
C9_AsStated ==
    pc = "returned" =>
        OfLevel("info") = <<LineFor(DOMAIN environ \cap AliasNames # {}, config_file # None)>>

\* C9, amended: a successful with_config logs exactly one informational line,
\* chosen by whether SUPABASE_PROJECT_REF or SUPABASE_DB_PASSWORD is set in the
\* environment and whether a config file path was supplied; it is logged after
\* the values are resolved and validated and changes none of them, and a call
\* that fails validation logs no informational line.
C9_SourceLine ==
    /\ [](/\ pc = "returned" =>
                OfLevel("info") =
                   <<LineFor("SUPABASE_PROJECT_REF" \in DOMAIN environ
                                \/ "SUPABASE_DB_PASSWORD" \in DOMAIN environ,
                             config_file # None)>>
          /\ pc # "returned" => OfLevel("info") = <<>>)
    /\ [][OfLevel("info")' # OfLevel("info")
             => (pc = "constructed" /\ errors = {} /\ instance' = instance)]_vars

C9_Witness ==
    /\ pc = "returned"
    /\ DOMAIN environ = {"SUPABASE_REGION"}
    /\ config_file = None
    /\ OfLevel("info") = <<UsingDefaults>>

-----------------------------------------------------------------------------
(* find_config_file, under SpecLocate.                                     *)

\* the candidates, written out
CwdCandidate == cwd \o "/.env"
GlobalCandidate ==
    IF os_name = "nt"
    THEN IF "APPDATA" \in DOMAIN environ
         THEN environ["APPDATA"] \o "/supabase-mcp/.env"
         ELSE "supabase-mcp/.env"
    ELSE "/home/u/.config/supabase-mcp/.env"

Deprecations == SelectSeq(log, LAMBDA e : e.msg = "DEPRECATED")

\* C6 as stated: the working-directory candidate wins when it exists as a
\* regular file; otherwise an existing global path is returned with exactly
\* one deprecation message; otherwise None with no message.  The deprecation
\* message is emitted iff the global path is the returned value.
C6_AsStated ==
    pc # "start" =>
        /\ IF IsFile(CwdCandidate)
           THEN config_file = CwdCandidate /\ Deprecations = <<>>
           ELSE IF Exists(GlobalCandidate)
                THEN config_file = GlobalCandidate /\ Len(Deprecations) = 1
                ELSE config_file = None /\ Deprecations = <<>>
        /\ Deprecations # <<>> <=> config_file = GlobalCandidate

\* C6, amended: the working-directory candidate wins when it exists, as a
\* regular file or as anything else, whatever the state of the global path,
\* and no deprecation message is emitted; otherwise an existing global path is
\* returned with exactly one deprecation message; otherwise None is returned
\* and nothing is emitted.  The deprecation message is emitted iff the
\* working-directory candidate does not exist and the global path is returned.
C6_LocatorOrder ==
    pc # "start" =>
        /\ IF Exists(CwdCandidate)
           THEN config_file = CwdCandidate /\ Deprecations = <<>>
           ELSE IF Exists(GlobalCandidate)
                THEN /\ config_file = GlobalCandidate
                     /\ Deprecations = <<Deprecated(GlobalCandidate)>>
                ELSE config_file = None /\ Deprecations = <<>>
        /\ Deprecations # <<>> <=> (~Exists(CwdCandidate) /\ config_file = GlobalCandidate)

\* both candidates exist as distinct regular files and the first wins
C6_Witness ==
    /\ pc # "start"
    /\ CwdCandidate # GlobalCandidate
    /\ IsFile(CwdCandidate)
    /\ IsFile(GlobalCandidate)
    /\ config_file = CwdCandidate
    /\ Deprecations = <<>>

====
